---- MODULE Spec2Model ----
(***************************************************************************)
(* Room membership and progress coordination of hackit_backenddemo:        *)
(* the HTTP handlers of api.py / main.py and the Socket.IO handlers of     *)
(* ws_server.py, run as concurrent tasks over one Firestore collection     *)
(* ('rooms') and one Socket.IO room registry.                              *)
(*                                                                         *)
(* A handler is a task that moves through its suspension points (every     *)
(* store round trip and every emit); between two suspension points its     *)
(* code runs as one step.  A Firestore transaction holds the document it   *)
(* read until it commits, so no other write lands in between.              *)
(***************************************************************************)
EXTENDS Naturals, FiniteSets, Sequences, TLC

\* ------------------------------------------------------------------ bounds

\* Number of handler invocations that may be in flight at the same time.
MaxTasks == 2

Tasks == 1 .. MaxTasks

\* ------------------------------------------------------- program constants

\* api.py: len(participants) >= 5
MaxParticipants == 5

\* The only id random.randint(10000, 99999) draws in this model.
RoomIds == {"10000"}

\* Value of a string field that the document does not hold.
Missing == "<missing>"

\* Value of 'duration' when the document does not hold it.
NoDuration == 0

NoTask == 0

\* ----------------------------------------------------------------- inputs

Uids == {"U1", "U2", "U3", "U4", "U5", "U6"}
Sids == {"s1", "s2", "s3"}

\* The display name an identity first joins with (names need not be
\* unique: U4, U5 and U6 share one).
NameOf ==
    [u \in Uids |->
        CASE u = "U1" -> "Alice" [] u = "U2" -> "Bob" [] u = "U3" -> "Carol"
          [] OTHER -> "Dave"]

\* (identity, display name) of the join requests: every identity under its
\* own name, and U2 also under the name of U1.
JoinArgs == {<<u, NameOf[u]>> : u \in Uids} \cup {<<"U2", "Alice">>}

\* (identity, display name) of the creation requests.
CreateArgs == {<<"U1", "Alice">>, <<"U2", "Bob">>}

\* The identities of the progress specification.
ProgressUids == {"U1", "U2"}

\* The identities and connections of the roster specification.
FewUids == {"U1", "U2", "U3"}
FewSids == {"s1", "s2"}
Topics == {"T"}
Durations == {30}
Messages == {"hi"}

\* ------------------------------------------------------------------ state

VARIABLES
    db,      \* rooms collection: room id -> document
    lock,    \* room id -> task whose transaction holds the document
    rooms,   \* Socket.IO registry: room name -> connections in it
    pc,      \* task -> suspension point it waits at
    req,     \* task -> arguments and locals of the handler it runs
    sent,    \* deliveries made by the latest step
    reply    \* request answered (event handled) by the latest step, with
             \* its response

vars == <<db, lock, rooms, pc, req, sent, reply>>

\* --------------------------------------------------------------- documents

EmptyMap == [u \in {} |-> Missing]

\* A document that does not exist (snapshot.exists is False).
Absent ==
    [exists |-> FALSE, creator_uid |-> Missing, participants |-> EmptyMap,
     finished_users |-> {}, topic |-> Missing, duration |-> NoDuration,
     status |-> Missing]

\* room_ref.set({...}) of create_room: the fields it writes and no other.
NewRoom(uid, username) ==
    [exists |-> TRUE, creator_uid |-> uid,
     participants |-> [u \in {uid} |-> username],
     finished_users |-> {}, topic |-> Missing, duration |-> NoDuration,
     status |-> Missing]

\* dict with one more (or one overwritten) entry
MapPut(m, k, v) == [u \in DOMAIN m \cup {k} |-> IF u = k THEN v ELSE m[u]]

MapDel_Keep(m, k) == m

\* del m[k]
MapDel(m, k) == [u \in DOMAIN m \ {k} |-> m[u]]

\* len(m)
Len_(m) == Cardinality(DOMAIN m)

\* f"discussion_{room_id}"
discussion_room_name(room_id) == "discussion_" \o room_id

RoomNames == RoomIds \cup {discussion_room_name(r) : r \in RoomIds}

\* list(participants_map.values()): the names with their multiplicity, the
\* order of a map's values being unspecified.
participants_list(m) ==
    [n \in {m[u] : u \in DOMAIN m} |->
        Cardinality({u \in DOMAIN m : m[u] = n})]

\* ----------------------------------------------------------- write sets

NoWrite == [kind |-> "none", uid |-> Missing, username |-> Missing,
            participants |-> EmptyMap, finished_users |-> {}]

DeleteWrite_Noop == NoWrite

\* transaction.delete(room_ref)
DeleteWrite == [NoWrite EXCEPT !.kind = "delete"]

\* transaction.update(room_ref, {f'participants.{uid}': username})
PutParticipantWrite(uid, username) ==
    [NoWrite EXCEPT !.kind = "put_participant", !.uid = uid,
                    !.username = username]

\* transaction.update(room_ref, {'participants': participants})
ParticipantsWrite(p) ==
    [NoWrite EXCEPT !.kind = "participants", !.participants = p]

\* transaction.update(room_ref, {'finished_users': finished_users_map})
FinishedWrite(f) ==
    [NoWrite EXCEPT !.kind = "finished_users", !.finished_users = f]

Apply_Merge(w, doc) ==
    CASE w.kind = "none" -> doc
      [] w.kind = "delete" -> Absent
      [] ~doc.exists -> doc
      [] w.kind = "put_participant" ->
            [doc EXCEPT !.participants = MapPut(@, w.uid, w.username)]
      [] w.kind = "participants" ->
            [doc EXCEPT !.participants = w.participants]
      [] w.kind = "finished_users" ->
            [doc EXCEPT !.finished_users = @ \cup w.finished_users]

Apply_Upsert(w, doc) ==
    CASE w.kind = "none" -> doc
      [] w.kind = "delete" -> Absent
      [] w.kind = "put_participant" ->
            [doc EXCEPT !.exists = TRUE,
                        !.participants = MapPut(@, w.uid, w.username)]
      [] w.kind = "participants" ->
            [doc EXCEPT !.exists = TRUE, !.participants = w.participants]
      [] w.kind = "finished_users" ->
            [doc EXCEPT !.exists = TRUE, !.finished_users = w.finished_users]

\* The document after the commit of a write set.  update() of a document
\* that does not exist writes nothing (the commit fails).
Apply(w, doc) ==
    CASE w.kind = "none" -> doc
      [] w.kind = "delete" -> Absent
      [] ~doc.exists -> doc
      [] w.kind = "put_participant" ->
            [doc EXCEPT !.participants = MapPut(@, w.uid, w.username)]
      [] w.kind = "participants" ->
            [doc EXCEPT !.participants = w.participants]
      [] w.kind = "finished_users" ->
            [doc EXCEPT !.finished_users = w.finished_users]

\* ------------------------------------------------------- task bookkeeping

NoReq ==
    [op |-> "none", sid |-> Missing, roomId |-> Missing, uid |-> Missing,
     username |-> Missing, snapshot |-> Absent, status |-> Missing,
     payload |-> <<>>]

NoReply ==
    [op |-> "none", by |-> NoTask, code |-> 0, detail |-> Missing,
     sid |-> Missing, message |-> Missing]

\* The response of an HTTP handler: status code and detail.
Reply(op, t, code, detail) ==
    [NoReply EXCEPT !.op = op, !.by = t, !.code = code, !.detail = detail]

\* A socket event handled in one step: its connection and its data.
Handled(op, t, sid, room_id, message) ==
    [NoReply EXCEPT !.op = op, !.by = t, !.detail = room_id, !.sid = sid,
                    !.message = message]

Idle(t) == pc[t] = "idle"

\* A request or event is taken by the first task that runs no handler.
Free(t) == Idle(t) /\ \A t2 \in Tasks : t2 < t => ~Idle(t2)

\* The task returns: it holds nothing any more.
Return(t) ==
    /\ pc' = [pc EXCEPT ![t] = "idle"]
    /\ req' = [req EXCEPT ![t] = NoReq]

TxnCanRead_Unlocked(t, room_id) == TRUE

\* A transaction may read a document that no other transaction holds.
TxnCanRead(t, room_id) == lock[room_id] = NoTask

\* A write outside a transaction waits for the transaction holding the
\* document.
CanWrite(room_id) == lock[room_id] = NoTask

Init ==
    /\ db = [r \in RoomIds |-> Absent]
    /\ lock = [r \in RoomIds |-> NoTask]
    /\ rooms = [n \in RoomNames |-> {}]
    /\ pc = [t \in Tasks |-> "idle"]
    /\ req = [t \in Tasks |-> NoReq]
    /\ sent = {}
    /\ reply = NoReply

\* ------------------------------------------------------ api.py create_room

\* create_room up to its first store read: the validation of the name.
create_room(t, username, uid) ==
    /\ Free(t)
    /\ IF username = ""
       THEN /\ reply' = Reply("create_room", t, 400, "Username is required")
            /\ UNCHANGED <<pc, req>>
       ELSE /\ pc' = [pc EXCEPT ![t] = "create_get"]
            /\ req' = [req EXCEPT ![t] =
                  [NoReq EXCEPT !.op = "create_room", !.uid = uid,
                                !.username = username]]
            /\ reply' = NoReply
    /\ sent' = {}
    /\ UNCHANGED <<db, lock, rooms>>

\* One round of the id loop that ends it: the id drawn is free when read.
\* (A round that draws a taken id changes nothing.)
create_room_get(t, room_id) ==
    /\ pc[t] = "create_get"
    /\ ~db[room_id].exists
    /\ pc' = [pc EXCEPT ![t] = "create_set"]
    /\ req' = [req EXCEPT ![t].roomId = room_id]
    /\ sent' = {}
    /\ reply' = NoReply
    /\ UNCHANGED <<db, lock, rooms>>

\* room_ref.set({...}) and the response.
create_room_set(t) ==
    /\ pc[t] = "create_set"
    /\ CanWrite(req[t].roomId)
    /\ db' = [db EXCEPT ![req[t].roomId] = NewRoom(req[t].uid, req[t].username)]
    /\ reply' = Reply("create_room", t, 200, req[t].roomId)
    /\ Return(t)
    /\ sent' = {}
    /\ UNCHANGED <<lock, rooms>>

\* -------------------------------------------------------- api.py join_room

JoinFull_OffByOne(participants, uid) ==
    uid \notin DOMAIN participants /\ Len_(participants) > MaxParticipants

JoinFull_NoRejoin(participants, uid) ==
    Len_(participants) >= MaxParticipants

\* if uid not in participants and len(participants) >= 5
JoinFull(participants, uid) ==
    uid \notin DOMAIN participants /\ Len_(participants) >= MaxParticipants

\* join_room.update_in_transaction, as result and write set
join_update_in_transaction(snapshot, uid, username) ==
    IF ~snapshot.exists
    THEN [error |-> "not_found", write |-> NoWrite]
    ELSE IF JoinFull(snapshot.participants, uid)
    THEN [error |-> "full", write |-> NoWrite]
    ELSE [error |-> "", write |-> PutParticipantWrite(uid, username)]

\* join_room up to the read of its transaction.
join_room(t, room_id, username, uid) ==
    /\ Free(t)
    /\ TxnCanRead(t, room_id)
    /\ lock' = [lock EXCEPT ![room_id] = t]
    /\ pc' = [pc EXCEPT ![t] = "join_txn"]
    /\ req' = [req EXCEPT ![t] =
          [NoReq EXCEPT !.op = "join_room", !.roomId = room_id, !.uid = uid,
                        !.username = username, !.snapshot = db[room_id]]]
    /\ sent' = {}
    /\ reply' = NoReply
    /\ UNCHANGED <<db, rooms>>

\* The commit of the transaction and the response made from its result.
join_room_commit(t) ==
    /\ pc[t] = "join_txn"
    /\ LET room_id == req[t].roomId
           result == join_update_in_transaction(req[t].snapshot, req[t].uid,
                                                req[t].username)
       IN  /\ db' = [db EXCEPT ![room_id] = Apply(result.write, @)]
           /\ lock' = [lock EXCEPT ![room_id] = NoTask]
           /\ reply' =
                CASE result.error = "not_found" ->
                        Reply("join_room", t, 404, "not_found")
                  [] result.error = "full" ->
                        Reply("join_room", t, 403, "full")
                  [] OTHER -> Reply("join_room", t, 200, room_id)
    /\ Return(t)
    /\ sent' = {}
    /\ UNCHANGED rooms

\* --------------------------------------------- api.py update_room_settings

update_room_settings_Set(t, room_id, topic, duration) ==
    /\ Free(t)
    /\ CanWrite(room_id)
    /\ db' = [db EXCEPT ![room_id] =
                [Absent EXCEPT !.exists = TRUE, !.topic = topic,
                               !.duration = duration, !.status = "discussing"]]
    /\ reply' = Reply("update_room_settings", t, 200, "updated")
    /\ sent' = {}
    /\ UNCHANGED <<lock, rooms, pc, req>>

\* room_ref.update({...}): fails (500) on a document that does not exist.
update_room_settings(t, room_id, topic, duration) ==
    /\ Free(t)
    /\ CanWrite(room_id)
    /\ IF db[room_id].exists
       THEN /\ db' = [db EXCEPT ![room_id] =
                  [@ EXCEPT !.topic = topic, !.duration = duration,
                            !.status = "discussing"]]
            /\ reply' = Reply("update_room_settings", t, 200, "updated")
       ELSE /\ db' = db
            /\ reply' = Reply("update_room_settings", t, 500, "failed")
    /\ sent' = {}
    /\ UNCHANGED <<lock, rooms, pc, req>>

\* ------------------------------------------------- ws_server.py registry

\* The events a handler is registered for: the functions under an @sio.on
\* decorator.  (Line 138 calls sio.on('start_discussion') without applying
\* it, which registers nothing.)
RegisteredEvents ==
    {"connect", "disconnect", "join_room", "leave_room",
     "join_discussion_room", "send_message", "finish_step",
     "reset_progress_for_next_step"}

Emit_Nobody(event, data, members) == {}

\* sio.emit(event, data, room=..., skip_sid=...): one delivery per member
\* of the room at the time of the call.
Emit(event, data, members) ==
    {[to |-> s, event |-> event, data |-> data] : s \in members}

\* not all([a, b])
Falsy(x) == x = ""

\* -------------------------------------------- ws_server.py handle_join_room

\* The payload of participants_update built from a document.
participants_update(doc) ==
    [participants |-> participants_list(doc.participants),
     creator_uid |-> doc.creator_uid]

\* handle_join_room up to the store read: validation and sio.enter_room.
handle_join_room(t, sid, room_id, uid) ==
    /\ Free(t)
    /\ IF Falsy(room_id) \/ Falsy(uid)
       THEN UNCHANGED <<rooms, pc, req>>
       ELSE /\ rooms' = [rooms EXCEPT ![room_id] = @ \cup {sid}]
            /\ pc' = [pc EXCEPT ![t] = "jr_get"]
            /\ req' = [req EXCEPT ![t] =
                  [NoReq EXCEPT !.op = "join_room_event", !.sid = sid,
                                !.roomId = room_id, !.uid = uid]]
    /\ sent' = {}
    /\ reply' = NoReply
    /\ UNCHANGED <<db, lock>>

\* doc = room_ref.get(): a read outside any transaction.
handle_join_room_get(t) ==
    /\ pc[t] = "jr_get"
    /\ IF db[req[t].roomId].exists
       THEN /\ pc' = [pc EXCEPT ![t] = "jr_emit"]
            /\ req' = [req EXCEPT ![t].payload =
                            participants_update(db[req[t].roomId])]
       ELSE Return(t)
    /\ sent' = {}
    /\ reply' = NoReply
    /\ UNCHANGED <<db, lock, rooms>>

\* sio.emit('participants_update', ..., room=room_id)
handle_join_room_emit(t) ==
    /\ pc[t] = "jr_emit"
    /\ sent' = Emit("participants_update", req[t].payload,
                    rooms[req[t].roomId])
    /\ Return(t)
    /\ reply' = NoReply
    /\ UNCHANGED <<db, lock, rooms>>

\* ------------------------------------------- ws_server.py handle_leave_room

leave_in_transaction_HostAlone(snapshot, uid_to_remove) ==
    IF ~snapshot.exists
    THEN [status |-> "not_found", write |-> NoWrite]
    ELSE IF uid_to_remove = snapshot.creator_uid
    THEN [status |-> "host_left", write |-> DeleteWrite]
    ELSE LET participants == MapDel(snapshot.participants, uid_to_remove)
         IN  IF DOMAIN participants \subseteq {snapshot.creator_uid}
             THEN [status |-> "deleted_empty", write |-> DeleteWrite]
             ELSE [status |-> "updated",
                   write |-> ParticipantsWrite(participants)]

\* leave_in_transaction, as result and write set
leave_in_transaction(snapshot, uid_to_remove) ==
    IF ~snapshot.exists
    THEN [status |-> "not_found", write |-> NoWrite]
    ELSE IF uid_to_remove = snapshot.creator_uid
    THEN [status |-> "host_left", write |-> DeleteWrite]
    ELSE LET participants == MapDel(snapshot.participants, uid_to_remove)
         IN  IF DOMAIN participants = {}
             THEN [status |-> "deleted_empty", write |-> DeleteWrite]
             ELSE [status |-> "updated",
                   write |-> ParticipantsWrite(participants)]

\* handle_leave_room up to the read of its transaction.
handle_leave_room(t, sid, room_id, uid) ==
    /\ Free(t)
    /\ IF Falsy(room_id) \/ Falsy(uid)
       THEN UNCHANGED <<lock, pc, req>>
       ELSE /\ TxnCanRead(t, room_id)
            /\ lock' = [lock EXCEPT ![room_id] = t]
            /\ pc' = [pc EXCEPT ![t] = "lv_txn"]
            /\ req' = [req EXCEPT ![t] =
                  [NoReq EXCEPT !.op = "leave_room", !.sid = sid,
                                !.roomId = room_id, !.uid = uid,
                                !.snapshot = db[room_id]]]
    /\ sent' = {}
    /\ reply' = NoReply
    /\ UNCHANGED <<db, rooms>>

\* The commit of leave_in_transaction (in its worker thread).
handle_leave_room_commit(t) ==
    /\ pc[t] = "lv_txn"
    /\ LET room_id == req[t].roomId
           result == leave_in_transaction(req[t].snapshot, req[t].uid)
       IN  /\ db' = [db EXCEPT ![room_id] = Apply(result.write, @)]
           /\ lock' = [lock EXCEPT ![room_id] = NoTask]
           /\ req' = [req EXCEPT ![t].status = result.status,
                                 ![t].snapshot = Absent]
    /\ pc' = [pc EXCEPT ![t] = "lv_after"]
    /\ sent' = {}
    /\ reply' = NoReply
    /\ UNCHANGED rooms

\* Back on the event loop: sio.leave_room, then by status the room_closed
\* emit, or handle_join_room(sid, {roomId, 'system_update'}) up to its read.
handle_leave_room_after(t) ==
    /\ pc[t] = "lv_after"
    /\ LET room_id == req[t].roomId
           left == rooms[room_id] \ {req[t].sid}
       IN  CASE req[t].status = "host_left" ->
                  /\ rooms' = [rooms EXCEPT ![room_id] = left]
                  /\ sent' = Emit("room_closed", "host left", left)
                  /\ pc' = [pc EXCEPT ![t] = "lv_close"]
                  /\ req' = req
             [] req[t].status = "updated" ->
                  /\ rooms' = [rooms EXCEPT ![room_id] = left \cup {req[t].sid}]
                  /\ sent' = {}
                  /\ pc' = [pc EXCEPT ![t] = "jr_get"]
                  /\ req' = [req EXCEPT ![t].uid = "system_update"]
             [] OTHER ->
                  /\ rooms' = [rooms EXCEPT ![room_id] = left]
                  /\ sent' = {}
                  /\ Return(t)
    /\ reply' = NoReply
    /\ UNCHANGED <<db, lock>>

\* sio.close_room(room_id)
handle_leave_room_close(t) ==
    /\ pc[t] = "lv_close"
    /\ rooms' = [rooms EXCEPT ![req[t].roomId] = {}]
    /\ Return(t)
    /\ sent' = {}
    /\ reply' = NoReply
    /\ UNCHANGED <<db, lock>>

\* ------------------------------------- ws_server.py discussion and chat

\* The body of handle_start_discussion.
handle_start_discussion(sid, room_id) ==
    IF Falsy(room_id)
    THEN {}
    ELSE Emit("discussion_started", [roomId |-> room_id], rooms[room_id])

\* A client sends start_discussion: the server runs the handler registered
\* for the event, if there is one.
start_discussion(t, sid, room_id) ==
    /\ Free(t)
    /\ sent' = IF "start_discussion" \in RegisteredEvents
               THEN handle_start_discussion(sid, room_id)
               ELSE {}
    /\ reply' = Handled("start_discussion", t, sid, room_id, Missing)
    /\ UNCHANGED <<db, lock, rooms, pc, req>>

\* handle_join_discussion_room
handle_join_discussion_room(t, sid, room_id) ==
    /\ Free(t)
    /\ rooms' = IF Falsy(room_id)
                THEN rooms
                ELSE [rooms EXCEPT ![discussion_room_name(room_id)] =
                                        @ \cup {sid}]
    /\ sent' = {}
    /\ reply' = Handled("join_discussion_room", t, sid, room_id, Missing)
    /\ UNCHANGED <<db, lock, pc, req>>

\* The connections new_message goes to.
SendMessageTo_NoSkip(sid, room_id) == rooms[discussion_room_name(room_id)]

\* room=discussion_room_name, skip_sid=sid
SendMessageTo(sid, room_id) == rooms[discussion_room_name(room_id)] \ {sid}

\* handle_send_message
handle_send_message(t, sid, room_id, message) ==
    /\ Free(t)
    /\ sent' = IF Falsy(room_id) \/ Falsy(message)
               THEN {}
               ELSE Emit("new_message", message, SendMessageTo(sid, room_id))
    /\ reply' = Handled("send_message", t, sid, room_id, message)
    /\ UNCHANGED <<db, lock, rooms, pc, req>>

\* ------------------------------------------ ws_server.py handle_finish_step

\* handle_finish_step.update_in_transaction, as result and write set
finish_update_in_transaction(snapshot, user_uid) ==
    IF ~snapshot.exists
    THEN [none |-> TRUE, finished_count |-> 0, total_participants |-> 0,
          write |-> NoWrite]
    ELSE LET finished_users_map == snapshot.finished_users \cup {user_uid}
         IN  [none |-> FALSE,
              finished_count |-> Cardinality(finished_users_map),
              total_participants |-> Len_(snapshot.participants),
              write |-> FinishedWrite(finished_users_map)]

\* handle_finish_step up to the read of its transaction.
handle_finish_step(t, sid, room_id, uid) ==
    /\ Free(t)
    /\ IF Falsy(room_id) \/ Falsy(uid)
       THEN UNCHANGED <<lock, pc, req>>
       ELSE /\ TxnCanRead(t, room_id)
            /\ lock' = [lock EXCEPT ![room_id] = t]
            /\ pc' = [pc EXCEPT ![t] = "fs_txn"]
            /\ req' = [req EXCEPT ![t] =
                  [NoReq EXCEPT !.op = "finish_step", !.sid = sid,
                                !.roomId = room_id, !.uid = uid,
                                !.snapshot = db[room_id]]]
    /\ sent' = {}
    /\ reply' = NoReply
    /\ UNCHANGED <<db, rooms>>

\* The commit of update_in_transaction (in its worker thread).
handle_finish_step_commit(t) ==
    /\ pc[t] = "fs_txn"
    /\ LET room_id == req[t].roomId
           result == finish_update_in_transaction(req[t].snapshot, req[t].uid)
       IN  /\ db' = [db EXCEPT ![room_id] = Apply(result.write, @)]
           /\ lock' = [lock EXCEPT ![room_id] = NoTask]
           /\ IF result.none
              THEN Return(t)
              ELSE /\ pc' = [pc EXCEPT ![t] = "fs_emit"]
                   /\ req' = [req EXCEPT
                        ![t].snapshot = Absent,
                        ![t].payload =
                            [finished_count |-> result.finished_count,
                             total_participants |-> result.total_participants]]
    /\ sent' = {}
    /\ reply' = NoReply
    /\ UNCHANGED rooms

\* sio.emit('progress_update', result, room=discussion_room_name)
handle_finish_step_emit(t) ==
    /\ pc[t] = "fs_emit"
    /\ sent' = Emit("progress_update", req[t].payload,
                    rooms[discussion_room_name(req[t].roomId)])
    /\ Return(t)
    /\ reply' = NoReply
    /\ UNCHANGED <<db, lock, rooms>>

\* handle_reset_progress: room_ref.update({'finished_users': {}}), which
\* fails on a document that does not exist.
handle_reset_progress(t, sid, room_id) ==
    /\ Free(t)
    /\ IF Falsy(room_id)
       THEN db' = db
       ELSE /\ CanWrite(room_id)
            /\ db' = [db EXCEPT ![room_id] = Apply(FinishedWrite({}), @)]
    /\ sent' = {}
    /\ reply' = Handled("reset_progress_for_next_step", t, sid, room_id,
                        Missing)
    /\ UNCHANGED <<lock, rooms, pc, req>>

\* ---------------------------------------------------------- specifications

\* The room document under concurrent requests of six identities: room
\* creation by U1, joins, settings, leaves with their roster refresh,
\* step completion and progress reset.
Next ==
    \E t \in Tasks :
        \/ create_room(t, NameOf["U1"], "U1")
        \/ \E r \in RoomIds : create_room_get(t, r)
        \/ create_room_set(t)
        \/ \E r \in RoomIds, a \in JoinArgs : join_room(t, r, a[2], a[1])
        \/ join_room_commit(t)
        \/ \E r \in RoomIds, tp \in Topics, d \in Durations :
                update_room_settings(t, r, tp, d)
        \/ \E r \in RoomIds, u \in Uids : handle_leave_room(t, "s1", r, u)
        \/ handle_leave_room_commit(t)
        \/ handle_leave_room_after(t)
        \/ handle_leave_room_close(t)
        \/ handle_join_room_get(t)
        \/ handle_join_room_emit(t)
        \/ \E r \in RoomIds : handle_finish_step(t, "s1", r, "U2")
        \/ handle_finish_step_commit(t)
        \/ handle_finish_step_emit(t)
        \/ \E r \in RoomIds : handle_reset_progress(t, "s1", r)

Spec == Init /\ [][Next]_vars

\* The roster: two connections and three identities joining and leaving
\* one room and its lobby.
NextWs ==
    \E t \in Tasks :
        \/ create_room(t, NameOf["U1"], "U1")
        \/ \E r \in RoomIds : create_room_get(t, r)
        \/ create_room_set(t)
        \/ \E r \in RoomIds, u \in FewUids \ {"U1"} :
                join_room(t, r, NameOf[u], u)
        \/ join_room_commit(t)
        \/ \E s \in FewSids, r \in RoomIds \cup {""}, u \in {"U1"} :
                handle_join_room(t, s, r, u)
        \/ handle_join_room_get(t)
        \/ handle_join_room_emit(t)
        \/ \E s \in FewSids, r \in RoomIds, u \in FewUids \cup {""} :
                handle_leave_room(t, s, r, u)
        \/ handle_leave_room_commit(t)
        \/ handle_leave_room_after(t)
        \/ handle_leave_room_close(t)

SpecWs == Init /\ [][NextWs]_vars

\* The discussion: three connections in the lobby and the discussion room
\* of one room.
NextChat ==
    \E t \in Tasks :
        \/ \E n \in {NameOf["U1"], ""} : create_room(t, n, "U1")
        \/ \E r \in RoomIds : create_room_get(t, r)
        \/ create_room_set(t)
        \/ \E s \in Sids, r \in RoomIds, u \in {"U1", ""} :
                handle_join_room(t, s, r, u)
        \/ handle_join_room_get(t)
        \/ handle_join_room_emit(t)
        \/ \E s \in Sids, r \in RoomIds \cup {""} : start_discussion(t, s, r)
        \/ \E s \in Sids, r \in RoomIds \cup {""} :
                handle_join_discussion_room(t, s, r)
        \/ \E s \in Sids, r \in RoomIds \cup {""}, m \in Messages \cup {""} :
                handle_send_message(t, s, r, m)

SpecChat == Init /\ [][NextChat]_vars

\* Progress of a step: the creator and one more identity joining, leaving
\* and completing the step of one room, with the host's settings and reset
\* requests.
NextProgress ==
    \E t \in Tasks :
        \/ create_room(t, NameOf["U1"], "U1")
        \/ \E r \in RoomIds : create_room_get(t, r)
        \/ create_room_set(t)
        \/ \E r \in RoomIds : join_room(t, r, NameOf["U2"], "U2")
        \/ join_room_commit(t)
        \/ \E r \in RoomIds, tp \in Topics, d \in Durations :
                update_room_settings(t, r, tp, d)
        \/ \E r \in RoomIds, u \in ProgressUids :
                handle_leave_room(t, "s1", r, u)
        \/ handle_leave_room_commit(t)
        \/ handle_leave_room_after(t)
        \/ handle_leave_room_close(t)
        \/ handle_join_room_get(t)
        \/ handle_join_room_emit(t)
        \/ \E r \in RoomIds \cup {""}, u \in ProgressUids :
                handle_finish_step(t, "s1", r, u)
        \/ handle_finish_step_commit(t)
        \/ handle_finish_step_emit(t)
        \/ \E r \in RoomIds \cup {""} : handle_reset_progress(t, "s1", r)

SpecProgress == Init /\ [][NextProgress]_vars

\* Creation: two identities creating rooms at the same time, a third one
\* joining, all of them leaving.
NextCreate ==
    \E t \in Tasks :
        \/ \E a \in CreateArgs : create_room(t, a[2], a[1])
        \/ \E r \in RoomIds : create_room_get(t, r)
        \/ create_room_set(t)
        \/ \E r \in RoomIds : join_room(t, r, NameOf["U3"], "U3")
        \/ join_room_commit(t)
        \/ \E r \in RoomIds, tp \in Topics, d \in Durations :
                update_room_settings(t, r, tp, d)
        \/ \E r \in RoomIds, u \in FewUids : handle_leave_room(t, "s1", r, u)
        \/ handle_leave_room_commit(t)
        \/ handle_leave_room_after(t)
        \/ handle_leave_room_close(t)
        \/ handle_join_room_get(t)
        \/ handle_join_room_emit(t)

SpecCreate == Init /\ [][NextCreate]_vars

\* Completion of a step: three identities completing the step of one room
\* at the same time, one connection listening in its discussion room, and
\* the host's reset requests.
NextFinish ==
    \E t \in Tasks :
        \/ create_room(t, NameOf["U1"], "U1")
        \/ \E r \in RoomIds : create_room_get(t, r)
        \/ create_room_set(t)
        \/ \E r \in RoomIds : join_room(t, r, NameOf["U2"], "U2")
        \/ join_room_commit(t)
        \/ \E r \in RoomIds : handle_join_discussion_room(t, "s1", r)
        \/ \E r \in RoomIds, u \in FewUids :
                handle_finish_step(t, "s2", r, u)
        \/ handle_finish_step_commit(t)
        \/ handle_finish_step_emit(t)
        \/ \E r \in RoomIds : handle_reset_progress(t, "s2", r)

SpecFinish == Init /\ [][NextFinish]_vars

\* ------------------------------------------------------------ properties

\* Steps of a task, told by its suspension points.
JoinCommits(t) == pc[t] = "join_txn" /\ pc'[t] = "idle"
LeaveCommits(t) == pc[t] = "lv_txn" /\ pc'[t] = "lv_after"
CreateSets(t) == pc[t] = "create_set" /\ pc'[t] = "idle"

Keys(room_id) == DOMAIN db[room_id].participants

\* C1: a room never has more than 5 participants, in any reachable state
\* of concurrent Join, Leave, FinishStep, ResetProgress and UpdateSettings.
C1_AtMostFive == \A r \in RoomIds : Len_(db[r].participants) <= MaxParticipants

\* A fifth participant has just been added by a Join.
C1_Witness ==
    \E r \in RoomIds :
        /\ Len_(db[r].participants) = MaxParticipants
        /\ reply.op = "join_room" /\ reply.code = 200

\* C2: no join write is lost and no identity appears unasked: a Join that
\* succeeds adds exactly its identity to the participants stored when it
\* commits, a Leave of a non-creator removes exactly its identity from
\* them, and no other step of an existing room adds a key.
C2_NoLostJoin ==
    [][\A r \in RoomIds :
        /\ \A t \in Tasks :
              (JoinCommits(t) /\ req[t].roomId = r /\ reply'.code = 200)
                  => DOMAIN db'[r].participants = Keys(r) \cup {req[t].uid}
        /\ \A t \in Tasks :
              (LeaveCommits(t) /\ req[t].roomId = r
                    /\ req'[t].status = "updated")
                  => DOMAIN db'[r].participants = Keys(r) \ {req[t].uid}
        /\ \A u \in DOMAIN db'[r].participants \ Keys(r) :
              \E t \in Tasks :
                  \/ JoinCommits(t) /\ req[t].roomId = r /\ req[t].uid = u
                  \/ CreateSets(t) /\ req[t].roomId = r /\ req[t].uid = u
      ]_vars

\* A Join has committed while the Leave of another identity was waiting to
\* report, and both identities' writes are in the document.
C2_Witness ==
    \E r \in RoomIds, t \in Tasks :
        /\ pc[t] = "lv_after" /\ req[t].status = "updated"
        /\ reply.op = "join_room" /\ reply.code = 200
        /\ req[t].uid \notin Keys(r)
        /\ Len_(db[r].participants) >= 3

\* C3: a Join by an identity that is already a participant succeeds, also
\* in a full room, keeps the number of participants and stores the name
\* given.
C3_Rejoin ==
    [][\A t \in Tasks :
        (JoinCommits(t) /\ req[t].uid \in Keys(req[t].roomId))
            => /\ reply'.op = "join_room" /\ reply'.code = 200
               /\ Len_(db'[req[t].roomId].participants)
                    = Len_(db[req[t].roomId].participants)
               /\ db'[req[t].roomId].participants[req[t].uid]
                    = req[t].username
      ]_vars

\* The transaction of a Join has read a full room that holds its identity
\* under another name.
C3_Witness ==
    \E t \in Tasks :
        /\ pc[t] = "join_txn"
        /\ Len_(db[req[t].roomId].participants) = MaxParticipants
        /\ req[t].uid \in Keys(req[t].roomId)
        /\ db[req[t].roomId].participants[req[t].uid] # req[t].username

\* C4: a Join by an identity that is no participant of a room with 5
\* participants fails with RoomFull (403) and leaves the document as it was.
C4_RoomFull ==
    [][\A t \in Tasks :
        (JoinCommits(t) /\ req[t].uid \notin Keys(req[t].roomId)
            /\ Len_(db[req[t].roomId].participants) >= MaxParticipants)
            => /\ reply'.op = "join_room" /\ reply'.code = 403
               /\ db' = db
      ]_vars

\* A Join has been refused as full.
C4_Witness ==
    \E r \in RoomIds :
        /\ reply.op = "join_room" /\ reply.code = 403
        /\ Len_(db[r].participants) = MaxParticipants

\* C5: once the Leave of the room's creator has committed, the document
\* does not exist, however many other participants the room had.
C5_HostLeaveDeletes ==
    [][\A t \in Tasks :
        (LeaveCommits(t) /\ db[req[t].roomId].exists
            /\ req[t].uid = db[req[t].roomId].creator_uid)
            => /\ ~db'[req[t].roomId].exists
               /\ req'[t].status = "host_left"
      ]_vars

\* The Leave of the creator has committed.
C5_Witness ==
    \E t \in Tasks :
        /\ pc[t] = "lv_after" /\ req[t].status = "host_left"
        /\ ~db[req[t].roomId].exists

\* A Leave of a non-creator participant after which no non-creator
\* participant remains.
LastGuestLeaves(t) ==
    LET doc == db[req[t].roomId]
    IN  /\ LeaveCommits(t)
        /\ doc.exists
        /\ req[t].uid # doc.creator_uid
        /\ req[t].uid \in DOMAIN doc.participants
        /\ DOMAIN doc.participants \ {req[t].uid} \subseteq {doc.creator_uid}

\* C7 as claimed: the Leave of the last non-creator participant deletes
\* the room document.
C7_AsClaimed ==
    [][\A t \in Tasks : LastGuestLeaves(t) => ~db'[req[t].roomId].exists]_vars

\* C7 as amended: the Leave of a non-creator deletes the room only if it
\* leaves participants empty; after the Leave of the last non-creator
\* participant the room exists with the creator as its only participant.
C7_LastGuestLeaves ==
    [][\A t \in Tasks :
        LET doc == db[req[t].roomId]
        IN  /\ (LeaveCommits(t) /\ doc.exists /\ req[t].uid # doc.creator_uid)
                => (db'[req[t].roomId].exists
                        <=> DOMAIN doc.participants \ {req[t].uid} # {})
            /\ LastGuestLeaves(t)
                => /\ req'[t].status = "updated"
                   /\ db'[req[t].roomId] =
                        [doc EXCEPT !.participants =
                            [u \in {doc.creator_uid} |-> doc.participants[u]]]
      ]_vars

\* The transaction of the Leave of the last non-creator participant has
\* read the room.
C7_Witness ==
    \E t \in Tasks :
        LET doc == db[req[t].roomId]
        IN  /\ pc[t] = "lv_txn"
            /\ doc.exists
            /\ req[t].uid # doc.creator_uid
            /\ req[t].uid \in DOMAIN doc.participants
            /\ DOMAIN doc.participants \ {req[t].uid} = {doc.creator_uid}

\* The roster read of handle_join_room, also as run by handle_leave_room.
RosterRead(t) == pc[t] = "jr_get" /\ pc'[t] = "jr_emit"
RosterEmit(t) == pc[t] = "jr_emit" /\ pc'[t] = "idle"

\* C6: after the Leave of a non-creator participant that leaves others
\* behind, the room exists with that identity's entry removed and every
\* other field as before; a participants_update built from a read of the
\* store lists the names of exactly the identities that are participants
\* at that read (one entry each, so none for an identity that has left),
\* and goes to every connection of the lobby.
C6_GuestLeaves ==
    [][\A t \in Tasks :
        LET r == req[t].roomId
            doc == db[r]
        IN  /\ (LeaveCommits(t) /\ doc.exists /\ req[t].uid # doc.creator_uid
                    /\ req[t].uid \in DOMAIN doc.participants
                    /\ DOMAIN doc.participants \ {req[t].uid} # {})
                => /\ req'[t].status = "updated"
                   /\ db'[r].exists
                   /\ DOMAIN db'[r].participants
                        = DOMAIN doc.participants \ {req[t].uid}
                   /\ \A u \in DOMAIN db'[r].participants :
                        db'[r].participants[u] = doc.participants[u]
                   /\ [db'[r] EXCEPT !.participants = doc.participants] = doc
            /\ RosterRead(t)
                => /\ req'[t].payload.creator_uid = doc.creator_uid
                   /\ \A n \in DOMAIN req'[t].payload.participants :
                        req'[t].payload.participants[n] =
                            Cardinality({u \in DOMAIN doc.participants :
                                            doc.participants[u] = n})
                   /\ \A u \in DOMAIN doc.participants :
                        doc.participants[u]
                            \in DOMAIN req'[t].payload.participants
            /\ RosterEmit(t)
                => sent' = {[to |-> c, event |-> "participants_update",
                             data |-> req[t].payload] : c \in rooms[r]}
      ]_vars

\* The refresh of a Leave has read a roster that no longer holds the name
\* of the identity that left, and is about to send it to the lobby.
C6_Witness ==
    \E t \in Tasks :
        /\ pc[t] = "jr_emit" /\ req[t].op = "leave_room"
        /\ db[req[t].roomId].exists
        /\ req[t].payload = participants_update(db[req[t].roomId])
        /\ DOMAIN db[req[t].roomId].participants = {"U1", "U3"}
        /\ "Bob" \notin DOMAIN req[t].payload.participants
        /\ rooms[req[t].roomId] = FewSids

\* C8: when a Leave ends with host_left, the handler first removes its own
\* connection, sends room_closed to every connection then registered in
\* the lobby without evicting any, and only in its next step evicts them
\* all: the lobby is empty when it returns.
C8_RoomClosed ==
    [][\A t \in Tasks :
        LET r == req[t].roomId
        IN  /\ (pc[t] = "lv_after" /\ pc'[t] # "lv_after"
                    /\ req[t].status = "host_left")
                => /\ pc'[t] = "lv_close"
                   /\ rooms'[r] = rooms[r] \ {req[t].sid}
                   /\ sent' = {[to |-> c, event |-> "room_closed",
                                data |-> "host left"] : c \in rooms'[r]}
            /\ (pc[t] # "lv_close" /\ pc'[t] = "lv_close")
                => (pc[t] = "lv_after" /\ req[t].status = "host_left")
            /\ (pc[t] = "lv_close" /\ pc'[t] # "lv_close")
                => (pc'[t] = "idle" /\ rooms'[r] = {})
      ]_vars

\* room_closed has just gone to a connection of the lobby, which is still
\* registered.
C8_Witness ==
    \E t \in Tasks :
        /\ pc[t] = "lv_close"
        /\ rooms[req[t].roomId] # {}
        /\ sent = {[to |-> c, event |-> "room_closed", data |-> "host left"] :
                        c \in rooms[req[t].roomId]}

\* C9 as claimed: a start_discussion event with a non-empty roomId makes
\* the server send discussion_started with that roomId to every connection
\* of the room's lobby.
C9_AsClaimed ==
    (reply.op = "start_discussion" /\ ~Falsy(reply.detail))
        => \A c \in rooms[reply.detail] :
                [to |-> c, event |-> "discussion_started",
                 data |-> [roomId |-> reply.detail]] \in sent

\* C10: new_message of a send_message with non-empty roomId and message
\* goes to exactly the connections of the discussion room other than the
\* sender: not to the sender, not to a connection that is in the lobby only.
C10_ChatRelay ==
    (reply.op = "send_message" /\ ~Falsy(reply.detail)
        /\ ~Falsy(reply.message))
        => /\ sent = {[to |-> c, event |-> "new_message",
                       data |-> reply.message] :
                        c \in rooms[discussion_room_name(reply.detail)]
                                \ {reply.sid}}
           /\ \A d \in sent :
                /\ d.to # reply.sid
                /\ d.to \in rooms[discussion_room_name(reply.detail)]

\* A message of a member of the discussion room has gone to the other
\* member and not to a connection that is in the lobby only.
C10_Witness ==
    /\ reply.op = "send_message" /\ reply.sid = "s1"
    /\ rooms[discussion_room_name("10000")] = {"s1", "s2"}
    /\ "s3" \in rooms["10000"]
    /\ sent = {[to |-> "s2", event |-> "new_message", data |-> "hi"]}

\* The commit of the transaction of a FinishStep.
FinishCommits(t) == pc[t] = "fs_txn" /\ pc'[t] # "fs_txn"

\* C11 as claimed: the FinishStep of a participant after which every
\* identity in participants has called FinishStep since the last reset
\* returns finishedCount = totalParticipants, whatever Joins and Leaves
\* came before it in the step.
C11_AsClaimed ==
    [][\A t \in Tasks :
        LET doc == req[t].snapshot
        IN  (FinishCommits(t) /\ doc.exists
                /\ req[t].uid \in DOMAIN doc.participants
                /\ req[t].uid \notin doc.finished_users
                /\ DOMAIN doc.participants
                        \subseteq doc.finished_users \cup {req[t].uid})
            => /\ pc'[t] = "fs_emit"
               /\ req'[t].payload.finished_count
                    = req'[t].payload.total_participants
      ]_vars

\* C12: in an existing room, a FinishStep whose transaction reads right
\* after a ResetProgress of that room reads no finished identity, and a
\* FinishStep that read none returns finishedCount = 1 and leaves
\* finished_users holding exactly its identity, all other fields as read.
C12_ResetThenFinish ==
    [][\A t \in Tasks :
        /\ (reply.op = "reset_progress_for_next_step"
                /\ reply.detail \in RoomIds
                /\ pc[t] = "idle" /\ pc'[t] = "fs_txn"
                /\ req'[t].roomId = reply.detail
                /\ db[reply.detail].exists)
            => /\ req'[t].snapshot = db[reply.detail]
               /\ req'[t].snapshot.finished_users = {}
        /\ (FinishCommits(t) /\ req[t].snapshot.exists
                /\ req[t].snapshot.finished_users = {})
            => /\ pc'[t] = "fs_emit"
               /\ req'[t].payload.finished_count = 1
               /\ db'[req[t].roomId] =
                    [req[t].snapshot EXCEPT !.finished_users = {req[t].uid}]
      ]_vars

\* A FinishStep has returned 1 in a room of two participants in which an
\* earlier FinishStep, still to be broadcast, returned 2.
C12_Witness ==
    \E t \in Tasks, t2 \in Tasks, r \in RoomIds :
        /\ pc[t] = "fs_emit" /\ req[t].roomId = r
        /\ req[t].payload.finished_count = 1
        /\ db[r].exists /\ db[r].finished_users = {req[t].uid}
        /\ Len_(db[r].participants) = 2
        /\ pc[t2] = "fs_emit" /\ req[t2].roomId = r
        /\ req[t2].payload.finished_count = 2

\* C13: an UpdateSettings that succeeds acts on an existing room and leaves
\* it with status discussing and the topic and duration given, its
\* participants, creator_uid and finished_users (and every other room) as
\* they were.
C13_UpdateSettings ==
    [][(reply'.op = "update_room_settings" /\ reply'.code = 200)
        => \E r \in RoomIds, tp \in Topics, d \in Durations :
              /\ db[r].exists /\ db'[r].exists
              /\ db'[r].status = "discussing"
              /\ db'[r].topic = tp /\ db'[r].duration = d
              /\ db'[r].participants = db[r].participants
              /\ db'[r].creator_uid = db[r].creator_uid
              /\ db'[r].finished_users = db[r].finished_users
              /\ \A r2 \in RoomIds \ {r} : db'[r2] = db[r2]
      ]_vars

\* Settings have just been stored in a room of two participants, one of
\* whom has completed the step.
C13_Witness ==
    \E r \in RoomIds :
        /\ reply.op = "update_room_settings" /\ reply.code = 200
        /\ db[r].status = "discussing" /\ db[r].topic = "T"
        /\ db[r].duration = 30
        /\ Len_(db[r].participants) = 2
        /\ db[r].finished_users # {}

\* C14 as claimed: right after a CreateRoom that succeeds, the document of
\* the room it returns holds the creator as its only participant under the
\* name given, the creator as creator_uid, and status waiting; the status
\* of a room leaves waiting only by an UpdateSettings.
C14_AsClaimed ==
    /\ []((reply.op = "create_room" /\ reply.code = 200)
            => \E a \in CreateArgs :
                  /\ db[reply.detail].exists
                  /\ db[reply.detail].participants = [u \in {a[1]} |-> a[2]]
                  /\ db[reply.detail].creator_uid = a[1]
                  /\ db[reply.detail].status = "waiting")
    /\ [][\A r \in RoomIds :
            (db[r].exists /\ db[r].status = "waiting" /\ db'[r].exists
                /\ db'[r].status # "waiting")
                => reply'.op = "update_room_settings"]_vars

\* C15 as claimed: a CreateRoom never writes over a document that exists
\* at the moment of its write, so a creation replaces no room's creator_uid
\* or participants.
C15_AsClaimed ==
    [][\A t \in Tasks : CreateSets(t) => ~db[req[t].roomId].exists]_vars

\* C16 as claimed: the finished_users written by the commit of a FinishStep
\* are identities that are participants in the snapshot it read, whoever
\* calls and whatever came before.
C16_AsClaimed ==
    [][\A t \in Tasks :
        (FinishCommits(t) /\ req[t].snapshot.exists)
            => db'[req[t].roomId].finished_users
                    \subseteq DOMAIN req[t].snapshot.participants
      ]_vars

\* C17 as claimed: once the handler of a leave_room event has removed its
\* connection from the lobby and goes on (to the roster refresh, to the
\* closing of the room, or to its return), the connection is not registered
\* in the lobby, whatever the result of the Leave.
C17_AsClaimed ==
    [][\A t \in Tasks :
        (req[t].op = "leave_room" /\ pc[t] = "lv_after"
            /\ pc'[t] # "lv_after")
            => req[t].sid \notin rooms'[req[t].roomId]
      ]_vars

\* C18: only the write of a CreateRoom makes a document exist.  On a room
\* id whose document is absent, the commit of a Join answers NotFound
\* (404), that of a Leave gives not_found, that of a FinishStep ends the
\* handler with nothing sent, and each of them, like ResetProgress and
\* UpdateSettings, leaves the document absent.
C18_OnlyCreateCreates ==
    [][/\ \A r \in RoomIds :
            (~db[r].exists /\ db'[r].exists)
                => \E t \in Tasks : CreateSets(t) /\ req[t].roomId = r
       /\ \A t \in Tasks :
            LET r == req[t].roomId
            IN  /\ (JoinCommits(t) /\ ~db[r].exists)
                    => /\ reply'.op = "join_room" /\ reply'.code = 404
                       /\ db' = db
                /\ (LeaveCommits(t) /\ ~db[r].exists)
                    => /\ req'[t].status = "not_found"
                       /\ db' = db
                /\ (FinishCommits(t) /\ ~db[r].exists)
                    => /\ pc'[t] = "idle"
                       /\ sent' = {}
                       /\ db' = db
                /\ (pc[t] # "fs_emit" /\ pc'[t] = "fs_emit") => db[r].exists
      ]_vars

\* A Join has been answered NotFound on the room that the creator's Leave,
\* still being handled, has deleted.
C18_Witness ==
    \E t \in Tasks, r \in RoomIds :
        /\ reply.op = "join_room" /\ reply.code = 404
        /\ ~db[r].exists
        /\ pc[t] = "lv_after" /\ req[t].status = "host_left"
        /\ req[t].roomId = r

\* C19 as claimed: an existing room's creator_uid is a key of its
\* participants (so participants is never empty), creator_uid does not
\* change while the document exists, and no Leave gives deleted_empty.
C19_AsClaimed ==
    [][/\ \A r \in RoomIds :
            /\ db'[r].exists
                => db'[r].creator_uid \in DOMAIN db'[r].participants
            /\ (db[r].exists /\ db'[r].exists)
                => db'[r].creator_uid = db[r].creator_uid
       /\ \A t \in Tasks :
            LeaveCommits(t) => req'[t].status # "deleted_empty"
      ]_vars

\* C20 as claimed: when all handlers have finished, a participants_update
\* that was the last delivery to the connections of the lobby carries the
\* names and the creator_uid that the room document holds.
C20_AsClaimed ==
    (\A t \in Tasks : Idle(t))
        => \A d \in sent, r \in RoomIds :
                (d.event = "participants_update" /\ d.to \in rooms[r])
                    => /\ db[r].exists
                       /\ d.data = participants_update(db[r])

\* The broadcast of the result of a FinishStep.
FinishEmits(t) == pc[t] = "fs_emit" /\ pc'[t] = "idle"

\* C21: the commit of a FinishStep on an existing room adds exactly its
\* identity to the finished_users stored at that moment (no entry of a
\* concurrent FinishStep is dropped) and returns their number; a FinishStep
\* of an identity already recorded leaves the document as it is and returns
\* the number already stored; the progress_update of a FinishStep carries
\* the counts its commit returned to every connection of the discussion
\* room.  So k identities completing the step after a reset leave exactly
\* k entries, and the largest count sent is k.
C21_FinishCounted ==
    [][\A t \in Tasks :
        LET r == req[t].roomId
        IN  /\ (FinishCommits(t) /\ db[r].exists)
                => /\ db'[r] = [db[r] EXCEPT !.finished_users =
                                                @ \cup {req[t].uid}]
                   /\ pc'[t] = "fs_emit"
                   /\ req'[t].payload.finished_count
                        = Cardinality(db'[r].finished_users)
                   /\ req'[t].payload.total_participants
                        = Len_(db[r].participants)
                   /\ req[t].uid \in db[r].finished_users
                        => /\ db'[r] = db[r]
                           /\ req'[t].payload.finished_count
                                = Cardinality(db[r].finished_users)
            /\ FinishEmits(t)
                => sent' = {[to |-> c, event |-> "progress_update",
                             data |-> req[t].payload] :
                                c \in rooms[discussion_room_name(r)]}
      ]_vars

\* Two identities have completed the step at the same time: the count of
\* the second one, 2, has just gone to the discussion room, that of the
\* first one, 1, is still to be sent, and both are recorded.
C21_Witness ==
    \E t \in Tasks, r \in RoomIds :
        /\ pc[t] = "fs_emit" /\ req[t].roomId = r
        /\ req[t].payload.finished_count = 1
        /\ db[r].exists
        /\ Cardinality(db[r].finished_users) = 2
        /\ req[t].uid \in db[r].finished_users
        /\ \E d \in sent :
              /\ d.event = "progress_update" /\ d.to = "s1"
              /\ d.data.finished_count = 2

====
